---- MODULE Spec2Model ----
(***************************************************************************)
(* Model of bmsinterests.py: one scheduled run fetches the "are            *)
(* interested" fragment, parses the count, loads data/ET00311251.json,     *)
(* decides whether to add a history entry, and rewrites the file.          *)
(*                                                                         *)
(* Representation                                                          *)
(*  - a timestamp is the number of the minute (ist_now_iso renders the     *)
(*    wall clock at minute precision with the fixed +05:30 offset, so the  *)
(*    string order used by max() is the order of the minute numbers);      *)
(*  - None (JSON null) is -1 wherever a timestamp or a count may be None;  *)
(*  - a Python dict is the sequence of its <<key, value>> items in         *)
(*    insertion order, which json.dump and json.load keep;                 *)
(*  - a text is a sequence of one-character strings.                       *)
(***************************************************************************)
EXTENDS Integers, Sequences, FiniteSets, TLC

\* ------------------------------------------------------------------ bounds
\* Last reading of the wall clock, in ticks.
MaxNow == 3

\* ------------------------------------------------------------------ config
MOVIE_CODE == "ET00311251"
SOURCE == "BookMyShow"
TIMEZONE == "Asia/Kolkata"
MAX_RETRIES == 5
\* Clock ticks in one minute: datetime.now() is finer than the minute that
\* isoformat(timespec="minutes") keeps.
TicksPerMinute == 2
None == -1
\* A key that the JSON object does not have.
Absent == "<absent>"

Timestamps == 0 .. (MaxNow \div TicksPerMinute)

\* ----------------------------------------------------------------- helpers
\* A rendering in local time whose offset drops by two minutes after the
\* first minute (the end of daylight saving).
ist_now_local(clock) ==
    LET m == clock \div TicksPerMinute
    IN  IF m = 0 THEN 1 ELSE m - 1
\* datetime.now(IST).isoformat(timespec="minutes")
ist_now_iso(clock) == clock \div TicksPerMinute

\* ---- parse_interested
Digits == <<"0", "1", "2", "3", "4", "5", "6", "7", "8", "9">>
LowerCase == <<"a", "b", "c", "d", "e", "f", "g", "h", "i", "j", "k", "l", "m",
               "n", "o", "p", "q", "r", "s", "t", "u", "v", "w", "x", "y", "z">>
UpperCase == <<"A", "B", "C", "D", "E", "F", "G", "H", "I", "J", "K", "L", "M",
               "N", "O", "P", "Q", "R", "S", "T", "U", "V", "W", "X", "Y", "Z">>
WhiteSpace == {" ", "\t", "\n"}
IsDigit(c) == \E i \in 1 .. 10 : Digits[i] = c
DigitVal(c) == (CHOOSE i \in 1 .. 10 : Digits[i] = c) - 1
Upper(c) ==
    IF \E i \in 1 .. 26 : LowerCase[i] = c
    THEN UpperCase[CHOOSE i \in 1 .. 26 : LowerCase[i] = c]
    ELSE c
Lower(c) ==
    IF \E i \in 1 .. 26 : UpperCase[i] = c
    THEN LowerCase[CHOOSE i \in 1 .. 26 : UpperCase[i] = c]
    ELSE c
\* text.replace(",", "").upper()
Normalise(text) ==
    LET kept == SelectSeq(text, LAMBDA c : c # ",")
    IN  [i \in 1 .. Len(kept) |-> Upper(kept[i])]

\* First position at or after i that does not hold a digit (\d+ is greedy).
RECURSIVE DigitsEnd(_, _)
DigitsEnd(s, i) ==
    IF i <= Len(s) /\ IsDigit(s[i]) THEN DigitsEnd(s, i + 1) ELSE i
\* First position at or after i that does not hold white space (\s*).
RECURSIVE SpaceEnd(_, _)
SpaceEnd(s, i) ==
    IF i <= Len(s) /\ s[i] \in WhiteSpace THEN SpaceEnd(s, i + 1) ELSE i
\* s holds the literal w at position i.
LiteralAt(s, i, w) ==
    /\ i + Len(w) - 1 <= Len(s)
    /\ \A j \in 1 .. Len(w) : s[i + j - 1] = w[j]

\* End (exclusive) of group 1 of a match of
\*   (\d+(\.\d+)?)\s*K\+?\s*ARE\s*INTERESTED
\* that starts at i, or 0 when none starts there.  No shorter choice of a
\* greedy part can rescue a match: what follows a shortened digit run or a
\* dropped fraction is a digit or a dot, which nothing after it in the
\* pattern accepts.
MatchAt(s, i) ==
    LET d == DigitsEnd(s, i)
        f == IF d <= Len(s) /\ s[d] = "." THEN DigitsEnd(s, d + 1) ELSE d
        g == IF f > d + 1 THEN f ELSE d
        k == SpaceEnd(s, g)
        p == IF k + 1 <= Len(s) /\ s[k + 1] = "+" THEN k + 2 ELSE k + 1
        a == SpaceEnd(s, p)
        n == SpaceEnd(s, a + 3)
    IN  IF /\ d > i
           /\ k <= Len(s) /\ s[k] = "K"
           /\ LiteralAt(s, a, <<"A", "R", "E">>)
           /\ LiteralAt(s, n, <<"I", "N", "T", "E", "R", "E", "S", "T", "E", "D">>)
        THEN g ELSE 0

RECURSIVE DecimalValue(_, _, _)
\* Value of the digits s[i .. j-1] read as a decimal integer.
DecimalValue(s, i, j) ==
    IF j <= i THEN 0 ELSE 10 * DecimalValue(s, i, j - 1) + DigitVal(s[j - 1])
RECURSIVE Pow10(_)
Pow10(n) == IF n = 0 THEN 1 ELSE 10 * Pow10(n - 1)
\* int() of the quotient, without round().
RoundDown(num, den) == num \div den
\* round() of a non-negative quotient num / den, ties to the even integer.
RoundHalfEven(num, den) ==
    LET q == num \div den
        r == num % den
    IN  IF 2 * r < den THEN q
        ELSE IF 2 * r > den THEN q + 1
        ELSE IF q % 2 = 0 THEN q ELSE q + 1
\* int(round(float(group1) * 1000)) for group 1 = s[i .. g-1].  With at most
\* three fraction digits the product is a whole number and the float
\* product rounds to it.  With more digits the float product is within
\* 1e-8 of the exact one, so that the two round alike unless the exact
\* product ends in .5 (64.0015 gives the float 64001.49999999999); no
\* input of the model is of that kind.
Thousands(s, i, g) ==
    LET d == DigitsEnd(s, i)
        whole == DecimalValue(s, i, d)
        fdigits == IF g > d THEN g - d - 1 ELSE 0
        frac == IF g > d THEN DecimalValue(s, d + 1, g) ELSE 0
    IN  whole * 1000 + RoundHalfEven(frac * 1000, Pow10(fdigits))

\* What stands for the ValueError of parse_interested.
ParseError == -2
\* parse_interested that falls back on the first run of four or more digits.
parse_interested_or_digits(text) ==
    LET s == Normalise(text)
        starts == {i \in 1 .. Len(s) : MatchAt(s, i) # 0}
        runs == {i \in 1 .. Len(s) :
                    /\ DigitsEnd(s, i) - i >= 4
                    /\ (i = 1 \/ ~IsDigit(s[i - 1]))}
    IN  IF starts # {}
        THEN LET i == CHOOSE a \in starts : \A b \in starts : a <= b
             IN  Thousands(s, i, MatchAt(s, i))
        ELSE IF runs # {}
        THEN LET i == CHOOSE a \in runs : \A b \in runs : a <= b
             IN  DecimalValue(s, i, DigitsEnd(s, i))
        ELSE ParseError
\* The count, or ParseError when re.search finds no match.
parse_interested(text) ==
    LET s == Normalise(text)
        starts == {i \in 1 .. Len(s) : MatchAt(s, i) # 0}
    IN  IF starts = {} THEN ParseError
        ELSE LET i == CHOOSE a \in starts : \A b \in starts : a <= b
             IN  Thousands(s, i, MatchAt(s, i))

\* ---- scrape_bms_interest: what one attempt can come back with
\* "are interested" in text.lower()
ContainsAreInterested(text) ==
    LET low == [i \in 1 .. Len(text) |-> Lower(text[i])]
    IN  \E i \in 1 .. Len(low) :
           LiteralAt(low, i, <<"a", "r", "e", " ", "i", "n", "t", "e", "r", "e", "s", "t", "e", "d">>)
\* Fragments the page can hold in its first matching element.
PageTexts ==
    { <<"6","4",".","6","K","+"," ","a","r","e"," ","i","n","t","e","r","e","s","t","e","d">>,
      <<"7","0","K"," ","a","r","e"," ","i","n","t","e","r","e","s","t","e","d">>,
      <<"1",".","2","k"," ","A","r","e"," ","I","n","t","e","r","e","s","t","e","d">>,
      <<"B","e"," ","t","h","e"," ","f","i","r","s","t",","," ","a","r","e"," ","i","n","t","e","r","e","s","t","e","d","?">>,
      <<"C","o","m","i","n","g"," ","s","o","o","n">> }

\* ---- Python dict as a sequence of items
EmptyDict == [typ |-> "dict", items |-> <<>>]
Keys(items) == {items[i][1] : i \in 1 .. Len(items)}
HasKey(items, k) == \E i \in 1 .. Len(items) : items[i][1] = k
GetItem(items, k) == items[CHOOSE i \in 1 .. Len(items) : items[i][1] = k][2]
\* history[timestamp] = interested: replaces the value of an existing key in
\* place, adds a new key at the end.
SetItem(items, k, v) ==
    IF HasKey(items, k)
    THEN [i \in 1 .. Len(items) |-> IF items[i][1] = k THEN <<k, v>> ELSE items[i]]
    ELSE Append(items, <<k, v>>)
MaxKey(items) == CHOOSE k \in Keys(items) : \A j \in Keys(items) : j <= k

\* ---- JSON values that the file can hold
\* A JSON object with the five keys of the record; history is tagged with the
\* JSON type found under the key.
JsonObject(ec, src, tz, lu, h) ==
    [typ |-> "dict", eventCode |-> ec, source |-> src, timezone |-> tz,
     last_updated |-> lu, history |-> h]
\* A JSON value that is not an object (array, string, number, null).
JsonArray ==
    [typ |-> "list", eventCode |-> Absent, source |-> Absent, timezone |-> Absent,
     last_updated |-> None, history |-> [typ |-> "absent", items |-> <<>>]]
DefaultRecord == JsonObject(MOVIE_CODE, SOURCE, TIMEZONE, None, EmptyDict)

\* ---- the file data/ET00311251.json
Missing == [st |-> "missing", json |-> JsonArray]
Unparseable == [st |-> "unparseable", json |-> JsonArray]
Stored(j) == [st |-> "json", json |-> j]

\* load_json that never reads the file.
load_default(f, default) == default
load_json(f, default) == IF f.st = "json" THEN f.json ELSE default
save_json(d) == Stored(d)

\* A record with the five keys, the configured identity excepted: what the
\* spec calls a well-formed EventRecord.
WellFormed(j) ==
    /\ j.typ = "dict"
    /\ j.eventCode # Absent /\ j.source # Absent /\ j.timezone # Absent
    /\ j.history.typ = "dict"
    /\ \A a, b \in 1 .. Len(j.history.items) :
          j.history.items[a][1] = j.history.items[b][1] => a = b
\* ---- get_last_interest
\* get_last_interest that takes the entry inserted last.
get_last_inserted(history) ==
    IF history.typ \in {"null", "emptylist"} \/ (history.typ = "dict" /\ history.items = <<>>)
    THEN [exc |-> "none", val |-> None]
    ELSE IF history.typ = "list"
    THEN [exc |-> "AttributeError", val |-> None]
    ELSE [exc |-> "none", val |-> history.items[Len(history.items)][2]]
\* get_last_interest that takes min() of the keys.
get_first_interest(history) ==
    IF history.typ \in {"null", "emptylist"} \/ (history.typ = "dict" /\ history.items = <<>>)
    THEN [exc |-> "none", val |-> None]
    ELSE IF history.typ = "list"
    THEN [exc |-> "AttributeError", val |-> None]
    ELSE [exc |-> "none",
          val |-> GetItem(history.items,
                          CHOOSE k \in Keys(history.items) : \A j \in Keys(history.items) : k <= j)]
\* "not history": None, an empty array and an empty object are falsy; a
\* non-empty array has no keys().
get_last_interest(history) ==
    IF history.typ \in {"null", "emptylist"} \/ (history.typ = "dict" /\ history.items = <<>>)
    THEN [exc |-> "none", val |-> None]
    ELSE IF history.typ = "list"
    THEN [exc |-> "AttributeError", val |-> None]
    ELSE [exc |-> "none", val |-> GetItem(history.items, MaxKey(history.items))]

\* ---- the decision of run, from the loaded data to the call of save_json
Raised(exc) == [exc |-> exc, data |-> JsonArray, outcome |-> "NONE"]
Result(d, o) == [exc |-> "none", data |-> d, outcome |-> o]
\* run without the assignment to last_updated.
NoTouch(d, timestamp) == d
\* An update that also writes the configured event code into the record.
TouchAndRestamp(d, timestamp) ==
    [d EXCEPT !.last_updated = timestamp, !.eventCode = MOVIE_CODE]
\* data["last_updated"] = timestamp
Touch(d, timestamp) == [d EXCEPT !.last_updated = timestamp]
\* The count compared with the text it was parsed from: never equal.
UnchangedText(last_value, interested) == FALSE
\* last_value == interested
Unchanged(last_value, interested) == last_value = interested
\* The membership test made on the values of the history.
TimestampInValues(history, timestamp) ==
    \E i \in 1 .. Len(history.items) : history.items[i][2] = timestamp
\* The membership test made against the latest key only.
TimestampIsLatest(history, timestamp) ==
    history.items # <<>> /\ MaxKey(history.items) = timestamp
\* timestamp in history, for a history that is an object
TimestampInHistory(history, timestamp) == HasKey(history.items, timestamp)
\* A collision branch that stores the new value under the existing key.
OverwriteBranch(d, history, timestamp, interested) ==
    Result([d EXCEPT !.history =
               [typ |-> "dict", items |-> SetItem(history.items, timestamp, interested)]],
           "TIMESTAMP_COLLISION")
\* the branch taken when the timestamp is already a key
CollisionBranch(d, history, timestamp, interested) == Result(d, "TIMESTAMP_COLLISION")
\* An append branch that starts a new history with the entry.
ReplaceBranch(d, history, timestamp, interested) ==
    Result([d EXCEPT !.history = [typ |-> "dict", items |-> <<<<timestamp, interested>>>>]],
           "APPENDED")
\* history[timestamp] = interested; data["history"] = history
AppendBranch(d, history, timestamp, interested) ==
    Result([d EXCEPT !.history =
               [typ |-> "dict", items |-> SetItem(history.items, timestamp, interested)]],
           "APPENDED")
\* The decision with the timestamp test placed before the value test.
DecideTimestampFirst(ld, timestamp, interested) ==
    IF ld.typ # "dict" THEN Raised("AttributeError")
    ELSE
      LET history == IF ld.history.typ = "absent" THEN EmptyDict ELSE ld.history
          last == get_last_interest(history)
          d == Touch(ld, timestamp)
      IN  IF last.exc # "none" THEN Raised(last.exc)
          ELSE IF history.typ = "null" THEN Raised("TypeError")
          ELSE IF history.typ = "dict" /\ TimestampInHistory(history, timestamp)
          THEN CollisionBranch(d, history, timestamp, interested)
          ELSE IF Unchanged(last.val, interested) THEN Result(d, "UNCHANGED")
          ELSE IF history.typ = "emptylist" THEN Raised("TypeError")
          ELSE AppendBranch(d, history, timestamp, interested)
\* The decision with last_updated assigned in the append branch only.
DecideTouchOnAppend(ld, timestamp, interested) ==
    IF ld.typ # "dict" THEN Raised("AttributeError")
    ELSE
      LET history == IF ld.history.typ = "absent" THEN EmptyDict ELSE ld.history
          last == get_last_interest(history)
      IN  IF last.exc # "none" THEN Raised(last.exc)
          ELSE IF Unchanged(last.val, interested) THEN Result(ld, "UNCHANGED")
          ELSE IF history.typ = "null" THEN Raised("TypeError")
          ELSE IF history.typ = "emptylist" THEN Raised("TypeError")
          ELSE IF TimestampInHistory(history, timestamp)
          THEN CollisionBranch(ld, history, timestamp, interested)
          ELSE AppendBranch(Touch(ld, timestamp), history, timestamp, interested)
Decide(ld, timestamp, interested) ==
    IF ld.typ # "dict" THEN Raised("AttributeError")
    ELSE
      LET history == IF ld.history.typ = "absent" THEN EmptyDict ELSE ld.history
          last == get_last_interest(history)
          d == Touch(ld, timestamp)
      IN  IF last.exc # "none" THEN Raised(last.exc)
          ELSE IF Unchanged(last.val, interested) THEN Result(d, "UNCHANGED")
          ELSE IF history.typ = "null" THEN Raised("TypeError")
          ELSE IF history.typ = "emptylist" THEN Raised("TypeError")
          ELSE IF TimestampInHistory(history, timestamp)
          THEN CollisionBranch(d, history, timestamp, interested)
          ELSE AppendBranch(d, history, timestamp, interested)

\* ---- the line printed for an outcome
OutcomeLine(o) == IF o = "APPENDED" THEN "[OK]" ELSE "[SKIP]"
\* except Exception: every exception the run raises is one of these.
ExceptionClasses == {"RuntimeError", "ValueError", "AttributeError", "TypeError", "OSError"}
\* except ValueError in place of except Exception.
CaughtValueError(exc) == exc = "ValueError"
Caught(exc) == exc \in ExceptionClasses

\* --------------------------------------------------------------------- state
VARIABLES
    file,       \* content of data/ET00311251.json
    now,        \* wall clock, in ticks
    pc,         \* position of the process
    timestamp,  \* run: timestamp
    attempt,    \* scrape_bms_interest: attempt, 0 outside the function; the
                \* attempts before it have each printed a [RETRY] line
    raw_text,   \* run: raw_text
    interested, \* run: interested
    loaded,     \* run: data as load_json returned it
    data,       \* run: data as handed to save_json
    outcome,    \* branch of the decision that the run took
    e,          \* exception that ended the run, "none" otherwise
    log         \* lines printed by run itself

vars == <<file, now, pc, timestamp, attempt, raw_text, interested, loaded, data, outcome, e, log>>
locals == <<timestamp, attempt, raw_text, interested, loaded, data, outcome, e, log>>

\* Contents the file can be found with when the job is first scheduled.
OtherRecord == JsonObject("ET00000000", SOURCE, TIMEZONE, None, EmptyDict)
InitialFiles ==
    { Missing, Unparseable,
      Stored(JsonArray),
      Stored(JsonObject(Absent, Absent, Absent, None, [typ |-> "absent", items |-> <<>>])),
      Stored(JsonObject(MOVIE_CODE, SOURCE, TIMEZONE, None, [typ |-> "null", items |-> <<>>])),
      Stored(JsonObject(MOVIE_CODE, SOURCE, TIMEZONE, None, [typ |-> "emptylist", items |-> <<>>])),
      Stored(JsonObject(MOVIE_CODE, SOURCE, TIMEZONE, None, [typ |-> "list", items |-> <<>>])),
      Stored(OtherRecord) }

Init ==
    /\ file \in InitialFiles
    /\ now = 0
    /\ pc = "idle"
    /\ timestamp = None
    /\ attempt = 0
    /\ raw_text = <<>>
    /\ interested = None
    /\ loaded = JsonArray
    /\ data = JsonArray
    /\ outcome = "NONE"
    /\ e = "none"
    /\ log = <<>>

\* ------------------------------------------------------------------- actions
\* The wall clock moves on.
Tick ==
    /\ now < MaxNow
    /\ now' = now + 1
    /\ UNCHANGED <<file, pc, locals>>

\* The wall clock is set back.
ClockBack ==
    /\ \E c \in 0 .. now - 1 : now' = c
    /\ UNCHANGED <<file, pc, locals>>

\* The locals of a process that has not assigned them.
Unassigned ==
    /\ raw_text' = <<>>
    /\ interested' = None
    /\ loaded' = JsonArray
    /\ data' = JsonArray
    /\ outcome' = "NONE"
    /\ e' = "none"
    /\ log' = <<>>

\* The scheduler starts the script: timestamp = ist_now_iso(), then the
\* first attempt of scrape_bms_interest.
Start ==
    /\ pc \in {"idle", "done", "crashed", "killed"}
    /\ pc' = "fetching"
    /\ timestamp' = ist_now_iso(now)
    /\ attempt' = 1
    /\ Unassigned
    /\ UNCHANGED <<file, now>>

\* An exception leaves the try block of run: the handler prints [ERROR] and
\* run returns; anything the handler does not catch ends the process.
Raise(exc, printed) ==
    /\ e' = exc
    /\ IF Caught(exc)
       THEN pc' = "done" /\ log' = Append(printed, "[ERROR]")
       ELSE pc' = "crashed" /\ log' = printed
\* What the site can answer to one scraper.get: an HTTP status with the text
\* of the page, or no answer at all (status 0: time-out, connection error).
Responses ==
    {[status |-> 200, text |-> t] : t \in PageTexts}
        \cup {[status |-> c, text |-> <<>>] : c \in {0, 403, 429, 500}}
\* The exception one attempt ends with, "none" when it returns the text.
AttemptError(res) ==
    IF res.status = 0 THEN "ConnectionError"
    ELSE IF res.status \in {403, 429} THEN "RuntimeError"
    ELSE IF res.status >= 400 THEN "HTTPError"
    ELSE IF ContainsAreInterested(res.text) THEN "none"
    ELSE "ValueError"

\* A loop whose range ends one attempt late.
MoreAttemptsOneLate(a) == a <= MAX_RETRIES
\* for attempt in range(1, MAX_RETRIES + 1): another attempt follows a.
MoreAttempts(a) == a < MAX_RETRIES

\* One attempt of the retry loop finds the text: scrape_bms_interest returns.
FetchAttemptReturns ==
    /\ pc = "fetching"
    /\ \E res \in Responses :
          /\ AttemptError(res) = "none"
          /\ raw_text' = res.text
    /\ attempt' = 0
    /\ pc' = "parsing"
    /\ UNCHANGED <<file, now, timestamp, interested, loaded, data, outcome, e, log>>

\* One attempt of the retry loop fails and prints its [RETRY] line; after the
\* last attempt RuntimeError("All retries failed") leaves the function.
FetchAttemptFails ==
    /\ pc = "fetching"
    /\ \E res \in Responses : AttemptError(res) # "none"
    /\ IF MoreAttempts(attempt)
       THEN /\ attempt' = attempt + 1
            /\ UNCHANGED <<pc, e, log>>
       ELSE /\ Raise("RuntimeError", log)
            /\ attempt' = 0
    /\ UNCHANGED <<file, now, timestamp, raw_text, interested, loaded, data, outcome>>

\* interested = parse_interested(raw_text)
Parse ==
    /\ pc = "parsing"
    /\ LET r == parse_interested(raw_text)
       IN  IF r = ParseError
           THEN Raise("ValueError", log) /\ UNCHANGED interested
           ELSE interested' = r /\ pc' = "deciding" /\ UNCHANGED <<e, log>>
    /\ UNCHANGED <<file, now, timestamp, attempt, raw_text, loaded, data, outcome>>

\* data = load_json(...), then the decision up to the call of save_json.
LoadAndDecide ==
    /\ pc = "deciding"
    /\ LET ld == load_json(file, DefaultRecord)
           r == Decide(ld, timestamp, interested)
       IN  /\ loaded' = ld
           /\ IF r.exc # "none"
              THEN Raise(r.exc, log) /\ UNCHANGED <<data, outcome>>
              ELSE /\ data' = r.data
                   /\ outcome' = r.outcome
                   /\ pc' = "saving"
                   /\ UNCHANGED <<e, log>>
    /\ UNCHANGED <<file, now, timestamp, attempt, raw_text, interested>>

\* save_json writes the whole record, the outcome is printed, run returns.
SaveReturns ==
    /\ pc = "saving"
    /\ file' = save_json(data)
    /\ log' = Append(log, OutcomeLine(outcome))
    /\ pc' = "done"
    /\ UNCHANGED <<now, timestamp, attempt, raw_text, interested, loaded, data, outcome, e>>

\* open(path, "w") raises (no permission, no directory): nothing is written.
SaveOpenFails ==
    /\ pc = "saving"
    /\ Raise("OSError", log)
    /\ UNCHANGED <<file, now, timestamp, attempt, raw_text, interested, loaded, data, outcome>>

\* open(path, "w") has emptied the file and a write of json.dump raises
\* (disk full): a prefix of the document is left behind.
SaveDumpFails ==
    /\ pc = "saving"
    /\ file' = Unparseable
    /\ Raise("OSError", log)
    /\ UNCHANGED <<now, timestamp, attempt, raw_text, interested, loaded, data, outcome>>

\* The process is stopped from outside (kill, power loss) before save_json
\* has opened the file.
Kill ==
    /\ pc \in {"fetching", "parsing", "deciding", "saving"}
    /\ pc' = "killed"
    /\ timestamp' = None
    /\ attempt' = 0
    /\ Unassigned
    /\ UNCHANGED <<file, now>>

\* The process is stopped from outside while save_json is writing.
KillWhileWriting ==
    /\ pc = "saving"
    /\ file' = Unparseable
    /\ pc' = "killed"
    /\ timestamp' = None
    /\ attempt' = 0
    /\ Unassigned
    /\ UNCHANGED now

Next ==
    \/ Tick
    \/ ClockBack
    \/ Start
    \/ FetchAttemptReturns
    \/ FetchAttemptFails
    \/ Parse
    \/ LoadAndDecide
    \/ SaveReturns
    \/ SaveOpenFails
    \/ SaveDumpFails
    \/ Kill
    \/ KillWhileWriting

Spec == Init /\ [][Next]_vars

TypeOK ==
    /\ now \in 0 .. MaxNow
    /\ pc \in {"idle", "fetching", "parsing", "deciding", "saving", "done", "crashed", "killed"}
    /\ timestamp \in Timestamps \cup {None}
    /\ attempt \in 0 .. MAX_RETRIES
    /\ file.st \in {"missing", "unparseable", "json"}
\* ------------------------------------------------------------ vocabulary
\* The run has passed load_json: loaded holds what it returned.
PastLoad == pc \in {"saving", "done"} /\ interested # None
\* The run has returned after save_json wrote the record.
Saved == pc = "done" /\ e = "none" /\ outcome # "NONE"
\* The loaded data is an object whose history is an object.
LoadedRecord == loaded.typ = "dict" /\ loaded.history.typ = "dict"
\* Value under the greatest key, None for no items.
LatestValue(items) == IF items = <<>> THEN None ELSE GetItem(items, MaxKey(items))
\* Every item of a is an item of b.
ItemsKept(a, b) ==
    \A i \in 1 .. Len(a) : HasKey(b, a[i][1]) /\ GetItem(b, a[i][1]) = a[i][2]
\* The items of the history that the file holds, none when it holds no
\* object with a history object.
FileItems(f) ==
    IF f.st = "json" /\ f.json.typ = "dict" /\ f.json.history.typ = "dict"
    THEN f.json.history.items ELSE <<>>
\* A step in which the write of save_json is cut short.
WriteCutShort == pc = "saving" /\ file' = Unparseable
RunLines == {"[OK]", "[SKIP]", "[ERROR]"}

\* ------------------------------------------------------------------ claims
\* C1: applying the same (timestamp, value) to the record that a first
\* application produced never appends again: the second application ends
\* as UNCHANGED or TIMESTAMP_COLLISION and the history is the same.
C1_Idempotent ==
    outcome # "NONE" =>
        LET again == Decide(load_json(save_json(data), DefaultRecord), timestamp, interested)
        IN  /\ again.exc = "none"
            /\ again.outcome \in {"UNCHANGED", "TIMESTAMP_COLLISION"}
            /\ again.data.history = data.history
\* An entry was appended below the greatest key, so that the second
\* application is stopped by the timestamp and not by the value.
C1_Witness ==
    /\ Saved /\ outcome = "APPENDED"
    /\ Decide(load_json(file, DefaultRecord), timestamp, interested).outcome = "TIMESTAMP_COLLISION"

\* C2: when the loaded history is not empty and the value under its greatest
\* key is the observed value, the run ends as UNCHANGED for every timestamp
\* and the history it saves is the history it loaded.
C2_MonotonicSkip ==
    (PastLoad /\ LoadedRecord /\ loaded.history.items # <<>>
        /\ LatestValue(loaded.history.items) = interested) =>
        /\ outcome = "UNCHANGED"
        /\ data.history = loaded.history
        /\ Saved => (file.st = "json" /\ file.json.history = loaded.history
                        /\ log[Len(log)] = "[SKIP]")
\* UNCHANGED was saved for a timestamp that is already a key, with an older
\* entry inserted after the latest one.
C2_Witness ==
    /\ Saved /\ outcome = "UNCHANGED"
    /\ HasKey(loaded.history.items, timestamp)
    /\ Len(loaded.history.items) >= 2
    /\ loaded.history.items[Len(loaded.history.items)][2] # interested

\* C3: when the loaded history has the key timestamp, the run leaves the
\* value under that key as it was, whatever the observed value is.
C3_CollisionSkip ==
    (PastLoad /\ LoadedRecord /\ HasKey(loaded.history.items, timestamp)) =>
        /\ outcome \in {"UNCHANGED", "TIMESTAMP_COLLISION"}
        /\ GetItem(data.history.items, timestamp) = GetItem(loaded.history.items, timestamp)
        /\ Saved => GetItem(FileItems(file), timestamp) = GetItem(loaded.history.items, timestamp)
\* A run observed a value that differs from the value under its timestamp
\* and from the latest value, and was saved.
C3_Witness ==
    /\ Saved /\ outcome = "TIMESTAMP_COLLISION"
    /\ interested # GetItem(loaded.history.items, timestamp)
    /\ interested # LatestValue(loaded.history.items)
    /\ MaxKey(loaded.history.items) # timestamp

\* C4: on a record the run appends exactly when the value differs from the
\* latest value (or there is none) and the timestamp is not a key; then the
\* history is the old one with the one entry added, last_updated is the
\* timestamp and the outcome is APPENDED.  The value test comes before the
\* timestamp test; the three outcomes exclude each other and leave no case.
C4_AppendCase ==
    (PastLoad /\ LoadedRecord) =>
        LET h == loaded.history.items
            same == h # <<>> /\ LatestValue(h) = interested
        IN  /\ outcome \in {"UNCHANGED", "TIMESTAMP_COLLISION", "APPENDED"}
            /\ outcome = "UNCHANGED" <=> same
            /\ outcome = "TIMESTAMP_COLLISION" <=> (~same /\ HasKey(h, timestamp))
            /\ outcome = "APPENDED" <=> (~same /\ ~HasKey(h, timestamp))
            /\ outcome = "APPENDED" =>
                  /\ data.history = [typ |-> "dict", items |-> Append(h, <<timestamp, interested>>)]
                  /\ data.last_updated = timestamp
                  /\ Saved => (file = Stored(data) /\ log[Len(log)] = "[OK]")
\* A changed value was appended to a history that already had entries.
C4_Witness ==
    /\ Saved /\ outcome = "APPENDED"
    /\ loaded.history.items # <<>>
    /\ ~HasKey(loaded.history.items, timestamp)
C6_NoDeletion ==
    [][ItemsKept(FileItems(file), FileItems(file'))]_vars
\* C6 amended: no step of any run removes an entry from the persisted
\* history, except a write of save_json that is cut short.
C6_NoDeletionUnlessCutShort ==
    [][~WriteCutShort => ItemsKept(FileItems(file), FileItems(file'))]_vars
\* A run failed when it opened the file and the entries are still there.
C6_Witness ==
    /\ pc = "done" /\ e = "OSError" /\ outcome # "NONE"
    /\ FileItems(file) # <<>>

\* C7 as stated: a run that ends as UNCHANGED or TIMESTAMP_COLLISION leaves
\* the persisted last_updated at its previous value.
C7_AdvancesOnlyOnAppend ==
    (Saved /\ outcome \in {"UNCHANGED", "TIMESTAMP_COLLISION"}) =>
        file.json.last_updated = loaded.last_updated
\* C7 amended: a run that ends as UNCHANGED or TIMESTAMP_COLLISION sets the
\* persisted last_updated to its own timestamp.
C7_AdvancesOnSkip ==
    (Saved /\ outcome \in {"UNCHANGED", "TIMESTAMP_COLLISION"}) =>
        /\ file.st = "json"
        /\ file.json.last_updated = timestamp
\* A skipping run moved last_updated away from an earlier timestamp.
C7_Witness ==
    /\ Saved /\ outcome \in {"UNCHANGED", "TIMESTAMP_COLLISION"}
    /\ loaded.last_updated # None
    /\ loaded.last_updated # timestamp

\* C8: when the file is missing or does not hold an object with a history
\* object, the run goes on with the freshly initialized record.
C8_CorruptionRecovery ==
    [][(/\ pc = "deciding" /\ pc' \in {"saving", "done", "crashed"}
        /\ ~(file.st = "json" /\ file.json.typ = "dict" /\ file.json.history.typ = "dict")) =>
          (loaded' = DefaultRecord /\ e' = "none")]_vars

\* C9: the process never dies of an exception; a run that returns has
\* printed exactly one of [OK], [SKIP], [ERROR], and [ERROR] exactly when an
\* exception ended it.
C9_NeverCrashes ==
    /\ pc # "crashed"
    /\ e # "none" => pc = "done"
    /\ pc = "done" =>
          /\ Cardinality({i \in 1 .. Len(log) : log[i] \in RunLines}) = 1
          /\ e # "none" <=> log[Len(log)] = "[ERROR]"
\* A failure of the write itself was caught and reported.
C9_Witness ==
    /\ pc = "done" /\ e = "OSError" /\ file = Unparseable
    /\ log = <<"[ERROR]">>

\* C10: whatever the file holds, a run whose fetch and parse succeed and
\* whose write does not fail returns with a well-formed record saved.
C10_UnattendedRecovery ==
    (pc = "done" /\ interested # None /\ e # "OSError") =>
        /\ e = "none"
        /\ file.st = "json"
        /\ WellFormed(file.json)

\* What parse_interested returns for the fragments the fetcher can return.
ObservedCounts == {parse_interested(t) : t \in {x \in PageTexts : ContainsAreInterested(x)}}
\* No key occurs twice among the items.
NoDuplicateKey(items) ==
    \A a, b \in 1 .. Len(items) : items[a][1] = items[b][1] => a = b

\* C11: a step of a run before the write leaves the file as it is; and no
\* step, of a first run, a re-run or a second run in the same minute, gives
\* the persisted history a key twice or changes the value recorded under a
\* key that stays.
C11_RetrySafe ==
    [][/\ pc # "saving" => file' = file
       /\ NoDuplicateKey(FileItems(file)) => NoDuplicateKey(FileItems(file'))
       /\ \A i \in 1 .. Len(FileItems(file)) :
             LET k == FileItems(file)[i][1]
             IN  HasKey(FileItems(file'), k) =>
                    GetItem(FileItems(file'), k) = FileItems(file)[i][2]]_vars
\* A second run in the minute of the run before it observed another value
\* than the one recorded for that minute, and was saved.
C11_Witness ==
    /\ Saved /\ outcome = "TIMESTAMP_COLLISION"
    /\ loaded.last_updated = timestamp
    /\ interested # GetItem(loaded.history.items, timestamp)
    /\ FileItems(file) = loaded.history.items

\* C12: the value that change detection uses is the value under the
\* greatest key, whatever the order of the items; for an empty history it
\* is None, which no observed value equals.
C12_LastByKeyOrder ==
    LET items == FileItems(file)
        last == get_last_interest([typ |-> "dict", items |-> items])
        reversed == [i \in 1 .. Len(items) |-> items[Len(items) + 1 - i]]
    IN  /\ last.exc = "none"
        /\ items = <<>> =>
              /\ last.val = None
              /\ None \notin ObservedCounts
        /\ items # <<>> =>
              /\ \E i \in 1 .. Len(items) :
                    /\ \A j \in 1 .. Len(items) : items[j][1] <= items[i][1]
                    /\ last.val = items[i][2]
              /\ get_last_interest([typ |-> "dict", items |-> reversed]) = last
        /\ (PastLoad /\ LoadedRecord /\ loaded.history.items # <<>>) =>
              (outcome = "UNCHANGED" <=>
                  \E i \in 1 .. Len(loaded.history.items) :
                     /\ \A j \in 1 .. Len(loaded.history.items) :
                           loaded.history.items[j][1] <= loaded.history.items[i][1]
                     /\ loaded.history.items[i][2] = interested)
\* The entry inserted last is not the entry under the greatest key, and the
\* two hold different values.
C12_Witness ==
    LET items == FileItems(file)
    IN  /\ Len(items) >= 2
        /\ items[Len(items)][1] # MaxKey(items)
        /\ items[Len(items)][2] # LatestValue(items)
        /\ items[1][2] = LatestValue(items)

\* C13: the fetcher makes at most MAX_RETRIES attempts; the attempt that
\* finds a text returns it at once; the failure reaches run only from the
\* last attempt; and every failing attempt before the last moves the
\* counter up by one, so that the loop ends after at most MAX_RETRIES steps.
C13_BoundedRetries ==
    /\ [](/\ attempt <= MAX_RETRIES
          /\ pc = "fetching" <=> attempt >= 1)
    /\ [][pc = "fetching" =>
             /\ raw_text' # <<>> => (pc' = "parsing" /\ attempt' = 0 /\ e' = "none")
             /\ e' # "none" => (e' = "RuntimeError" /\ attempt = MAX_RETRIES /\ pc' = "done")
             /\ (pc' = "fetching" /\ attempt' # attempt) => attempt' = attempt + 1]_vars
\* All five attempts failed and run reported the failure.
C13_Witness ==
    /\ pc = "done" /\ e = "RuntimeError"
    /\ raw_text = <<>> /\ log = <<"[ERROR]">>

\* The identity fields of a JSON object.
Identity(j) == <<j.eventCode, j.source, j.timezone>>

\* C14: a run that saves a record it found persisted writes the eventCode,
\* source and timezone that the record had, whatever its outcome.
C14_IdentityKept ==
    [][(file.st = "json" /\ file.json.typ = "dict" /\ file'.st = "json") =>
          /\ file'.json.typ = "dict"
          /\ Identity(file'.json) = Identity(file.json)]_vars
\* A record of another event went through a skipping run and still carries
\* its own event code.
C14_Witness ==
    /\ Saved /\ outcome \in {"UNCHANGED", "TIMESTAMP_COLLISION"}
    /\ loaded.eventCode = "ET00000000"
    /\ file.json.eventCode = "ET00000000"

\* ---------------------------------------------- parse_interested on its own
\* Numbers as they are written, with their values.
WrittenNumbers ==
    { [txt |-> <<"1">>, val |-> 1],
      [txt |-> <<"6", "4">>, val |-> 64],
      [txt |-> <<"1", "2", "3", "4", "5">>, val |-> 12345],
      [txt |-> <<"1", ",", "2", "3", "4">>, val |-> 1234] }
\* Fractions as they are written, with round(fraction * 1000).
WrittenFractions ==
    { [txt |-> <<>>, milli |-> 0],
      [txt |-> <<".", "2">>, milli |-> 200],
      [txt |-> <<".", "6">>, milli |-> 600],
      [txt |-> <<".", "2", "5">>, milli |-> 250],
      [txt |-> <<".", "2", "5", "0", "4">>, milli |-> 250],
      [txt |-> <<".", "0", "0", "0", "6">>, milli |-> 1] }
UnitLetters == {<<"K">>, <<"k">>}
PlusSigns == {<<>>, <<"+">>}
\* What follows the number: the phrase of the page, twice, and three tails
\* without it right after the number.
PhraseTails ==
    { <<" ", "a", "r", "e", " ", "i", "n", "t", "e", "r", "e", "s", "t", "e", "d">>,
      <<" ", "A", "R", "E", " ", " ", "I", "N", "T", "E", "R", "E", "S", "T", "E", "D">> }
OtherTails ==
    { <<>>,
      <<" ", "p", "e", "o", "p", "l", "e">>,
      <<" ", "p", "e", "o", "p", "l", "e", " ", "a", "r", "e", " ", "i", "n", "t", "e", "r", "e", "s", "t", "e", "d">> }
\* The raw inputs: number, fraction, unit letter or none, plus sign or none,
\* tail.
ParseInputs ==
    { n.txt \o f.txt \o u \o p \o t :
        n \in WrittenNumbers, f \in WrittenFractions, u \in UnitLetters \cup {<<>>},
        p \in PlusSigns, t \in PhraseTails \cup OtherTails }

\* parse_interested is called on one of the raw inputs.
InitParse ==
    /\ file = Missing
    /\ now = 0
    /\ pc = "parsing"
    /\ timestamp = 0
    /\ attempt = 0
    /\ raw_text \in ParseInputs
    /\ interested = None
    /\ loaded = JsonArray
    /\ data = JsonArray
    /\ outcome = "NONE"
    /\ e = "none"
    /\ log = <<>>
NextParse == Parse
SpecParse == InitParse /\ [][NextParse]_vars

NextMonotone ==
    \/ Tick
    \/ Start
    \/ FetchAttemptReturns
    \/ FetchAttemptFails
    \/ Parse
    \/ LoadAndDecide
    \/ SaveReturns
    \/ SaveOpenFails
    \/ SaveDumpFails
    \/ Kill
    \/ KillWhileWriting
SpecMonotone == Init /\ [][NextMonotone]_vars

\* C17: a run whose fetch and parse succeed persists its own timestamp as
\* last_updated in each of the three outcomes; a run whose fetch or parse
\* fails leaves the file, and so last_updated, as it was.
C17_TouchedOnEveryRun ==
    /\ [](/\ outcome # "NONE" => data.last_updated = timestamp
          /\ Saved =>
                /\ outcome \in {"UNCHANGED", "TIMESTAMP_COLLISION", "APPENDED"}
                /\ file = Stored(data)
                /\ file.json.last_updated = timestamp)
    /\ [][(e = "none" /\ e' \in {"RuntimeError", "ValueError"}) => file' = file]_vars
\* A run that found its timestamp in the history replaced an older
\* last_updated by its own timestamp.
C17_Witness ==
    /\ Saved /\ outcome = "TIMESTAMP_COLLISION"
    /\ loaded.last_updated # None
    /\ loaded.last_updated < timestamp
    /\ file.json.last_updated = timestamp

\* C18: with a clock that is not set back, the keys of the persisted
\* history rise in the order of insertion, so the greatest key is the entry
\* appended last; a run carries the timestamp of its start, which the clock
\* has reached.
C18_MonotonicKeys ==
    LET items == FileItems(file)
    IN  /\ \A i, j \in 1 .. Len(items) : i < j => items[i][1] < items[j][1]
        /\ items # <<>> =>
              /\ MaxKey(items) = items[Len(items)][1]
              /\ get_last_interest([typ |-> "dict", items |-> items]).val = items[Len(items)][2]
        /\ \A i \in 1 .. Len(items) : items[i][1] * TicksPerMinute <= now
        /\ timestamp # None => timestamp * TicksPerMinute <= now
\* A second entry was appended by a run during which the clock moved on.
C18_Witness ==
    /\ Saved /\ outcome = "APPENDED"
    /\ Len(FileItems(file)) >= 2
    /\ now > timestamp * TicksPerMinute

\* C19: with a clock that is not set back, no two entries that are
\* neighbours in the order of their keys hold the same value.
C19_NeighboursDiffer ==
    LET items == FileItems(file)
    IN  \A a, b \in 1 .. Len(items) :
            (/\ items[a][1] < items[b][1]
             /\ ~\E c \in 1 .. Len(items) :
                    items[a][1] < items[c][1] /\ items[c][1] < items[b][1])
                => items[a][2] # items[b][2]
\* The latest value was observed again and was not recorded a second time.
C19_Witness ==
    /\ Saved /\ outcome = "UNCHANGED"
    /\ Len(FileItems(file)) >= 2
    /\ FileItems(file) = loaded.history.items
====
